---- MODULE Spec2Model ----
(***************************************************************************)
(* A model of openstack/config/cloud_region.py: the CloudRegion object,    *)
(* its resolver methods over the flattened config mapping, the lazily      *)
(* built keystone session and the catalog probe of get_session_endpoint.   *)
(***************************************************************************)
EXTENDS Integers, Sequences, FiniteSets, TLC

\* How often one history may recompute the verify arguments.
MaxVerifyCalls == 2

\* The highest major version a caller passes as min_version or max_version.
MaxMajor == 3

(***************************************************************************)
(* Python values.  A value is a record whose single field names its type,  *)
(* so that values of different types can be compared.                      *)
(***************************************************************************)
None == [none |-> TRUE]
Bool(b) == [bool |-> b]
Str(s) == [str |-> s]
PyInt(n) == [int |-> n]
PyFloat(n) == [float |-> n]
Tuple(t) == [tuple |-> t]
List(l) == [list |-> l]

IsNone(v) == DOMAIN v = {"none"}
IsStr(v) == DOMAIN v = {"str"}

\* Python's truth value of an object.
Truthy(v) ==
    CASE DOMAIN v = {"none"} -> FALSE
      [] DOMAIN v = {"bool"} -> v.bool
      [] DOMAIN v = {"str"} -> v.str # ""
      [] DOMAIN v = {"int"} -> v.int # 0
      [] DOMAIN v = {"float"} -> v.float # 0
      [] DOMAIN v = {"tuple"} -> Len(v.tuple) > 0
      [] DOMAIN v = {"list"} -> Len(v.list) > 0
      [] OTHER -> TRUE

\* The outcome of a call: a returned value or a raised exception.
Return(v) == [exc |-> "", val |-> v]
Raise(e) == [exc |-> e, val |-> None]
KeyError == "KeyError"
OpenStackConfigException == "OpenStackConfigException: Problem with auth parameters"
EndpointNotFound == "EndpointNotFound"

(***************************************************************************)
(* Python str.  The strings on which the code works character by           *)
(* character (service types, API versions) are spelled out by Chars.       *)
(***************************************************************************)
Chars(s) ==
    CASE s = "" -> <<>>
      [] s = "volume" -> <<"v", "o", "l", "u", "m", "e">>
      [] s = "block-storage" ->
            <<"b", "l", "o", "c", "k", "-", "s", "t", "o", "r", "a", "g", "e">>
      [] s = "Block-Storage" ->
            <<"B", "l", "o", "c", "k", "-", "S", "t", "o", "r", "a", "g", "e">>
      [] s = "workflow" -> <<"w", "o", "r", "k", "f", "l", "o", "w">>
      [] s = "compute" -> <<"c", "o", "m", "p", "u", "t", "e">>
      [] s = "volumev2" -> <<"v", "o", "l", "u", "m", "e", "v", "2">>
      [] s = "volumev3" -> <<"v", "o", "l", "u", "m", "e", "v", "3">>
      [] s = "workflowv2" -> <<"w", "o", "r", "k", "f", "l", "o", "w", "v", "2">>
      [] s = "1" -> <<"1">>
      [] s = "2" -> <<"2">>
      [] s = "2.1" -> <<"2", ".", "1">>
      [] s = "3.0" -> <<"3", ".", "0">>
      [] s = "12" -> <<"1", "2">>

RECURSIVE Join(_)
Join(cs) == IF cs = <<>> THEN "" ELSE Head(cs) \o Join(Tail(cs))

\* str.lower(), character by character
lower(cs) ==
    [i \in 1..Len(cs) |->
        CASE cs[i] = "B" -> "b"
          [] cs[i] = "S" -> "s"
          [] OTHER -> cs[i]]

\* str.replace('-', '_')
replace(cs) == [i \in 1..Len(cs) |-> IF cs[i] = "-" THEN "_" ELSE cs[i]]

\* str.startswith(p) for a one-character p
startswith(s, p) == Len(Chars(s)) > 0 /\ Chars(s)[1] = p

\* "_".join([a, b])
join(a, b) == a \o "_" \o b

\* _make_key(key, service_type)
_make_key(key, service_type) ==
    IF service_type = "" THEN key
    ELSE join(Join(replace(lower(Chars(service_type)))), key)

(***************************************************************************)
(* The CloudRegion object (self.log is left out: it holds no state the     *)
(* methods read), the keystone catalog the session answers from, and the   *)
(* observation of the calls made so far.                                   *)
(***************************************************************************)
VARIABLES
    name,                  \* self.name
    region_name,           \* self.region_name
    config,                \* self.config: a dict, key -> value
    _force_ipv4,           \* self._force_ipv4
    _auth,                 \* self._auth: None or the auth plugin
    _openstack_config,     \* self._openstack_config: None or the provider
    _keystone_session,     \* self._keystone_session: None or the session
    _session_constructor,  \* self._session_constructor
    _app_name,             \* self._app_name
    _app_version,          \* self._app_version
    catalog,               \* service type -> endpoint, as the session resolves it
    ret,                   \* the last call: its name, arguments and outcome
    factory_calls,         \* how often a session constructor has been invoked
    verify_calls,          \* how often get_session has computed the verify arguments
    returned,              \* the first session a get_session() call returned
    called,                \* whether get_session() has been called
    pc,                    \* per thread: where it stands inside get_session
    frame                  \* per thread: the locals of its get_session call

fields == <<name, region_name, config, _force_ipv4, _auth, _openstack_config,
            _session_constructor, _app_name, _app_version>>
env == <<catalog>>
threads == <<pc, frame>>
vars == <<name, region_name, config, _force_ipv4, _auth, _openstack_config,
          _keystone_session, _session_constructor, _app_name, _app_version,
          catalog, ret, factory_calls, verify_calls, returned, called, pc, frame>>

\* dict.get(key, default)
config_get(key, default) == IF key \in DOMAIN config THEN config[key] ELSE default

\* CloudRegion.get_requests_verify_args: the warning it emits
get_requests_verify_args_warns ==
    /\ "verify" \in DOMAIN config
    /\ "cacert" \in DOMAIN config
    /\ ~(Truthy(config["verify"]) /\ Truthy(config["cacert"]))
    /\ Truthy(config["cacert"])

\* CloudRegion.get_requests_verify_args
get_requests_verify_args ==
    IF "verify" \notin DOMAIN config THEN Raise(KeyError)
    ELSE IF Truthy(config["verify"]) /\ "cacert" \notin DOMAIN config
    THEN Raise(KeyError)
    ELSE IF ~Truthy(config["verify"]) /\ "cacert" \notin DOMAIN config
    THEN Raise(KeyError)
    ELSE
      LET verify == IF Truthy(config["verify"]) /\ Truthy(config["cacert"])
                    THEN config["cacert"]
                    ELSE config["verify"]
          cert == config_get("cert", None)
      IN  IF Truthy(cert)
          THEN IF "key" \notin DOMAIN config THEN Raise(KeyError)
               ELSE IF Truthy(config["key"])
               THEN Return(Tuple(<<verify, Tuple(<<cert, config["key"]>>)>>))
               ELSE Return(Tuple(<<verify, cert>>))
          ELSE Return(Tuple(<<verify, cert>>))

\* CloudRegion.get_auth_args
get_auth_args == config_get("auth", [dict |-> <<>>])

\* CloudRegion.get_interface
get_interface(service_type) ==
    LET key == _make_key("interface", service_type)
        interface == config_get("interface", None)
    IN  config_get(key, interface)

\* CloudRegion.get_api_version
get_api_version(service_type) ==
    LET key == _make_key("api_version", service_type)
    IN  config_get(key, None)

\* get_service_type making its key from the aliased service type
get_service_type_key_of_alias(service_type) ==
    LET vol_ver == config_get("volume_api_version", None)
        wk_ver == config_get("workflow_api_version", None)
        aliased ==
            IF service_type \in {"volume", "block-storage"}
            THEN IF Truthy(vol_ver) /\ startswith(vol_ver.str, "2") THEN "volumev2"
                 ELSE IF Truthy(vol_ver) /\ startswith(vol_ver.str, "3") THEN "volumev3"
                 ELSE service_type
            ELSE IF service_type = "workflow"
            THEN IF Truthy(wk_ver) /\ startswith(wk_ver.str, "2") THEN "workflowv2"
                 ELSE service_type
            ELSE service_type
    IN  config_get(_make_key("service_type", aliased), Str(aliased))

\* CloudRegion.get_service_type
get_service_type(service_type) ==
    LET key == _make_key("service_type", service_type)
        vol_ver == get_api_version("volume")
        wk_ver == get_api_version(service_type)
        aliased ==
            IF service_type \in {"volume", "block-storage"}
            THEN IF Truthy(vol_ver) /\ startswith(vol_ver.str, "2")
                 THEN "volumev2"
                 ELSE IF Truthy(vol_ver) /\ startswith(vol_ver.str, "3")
                 THEN "volumev3"
                 ELSE service_type
            ELSE IF service_type = "workflow"
            THEN IF Truthy(wk_ver) /\ startswith(wk_ver.str, "2")
                 THEN "workflowv2"
                 ELSE service_type
            ELSE service_type
    IN  config_get(key, Str(aliased))

\* CloudRegion.get_service_name
get_service_name(service_type) ==
    LET key == _make_key("service_name", service_type)
    IN  config_get(key, None)

\* get_endpoint preferring the legacy key
get_endpoint_legacy_first(service_type) ==
    LET key == _make_key("endpoint_override", service_type)
        old_key == _make_key("endpoint", service_type)
    IN  config_get(old_key, config_get(key, None))

\* CloudRegion.get_endpoint
get_endpoint(service_type) ==
    LET key == _make_key("endpoint_override", service_type)
        old_key == _make_key("endpoint", service_type)
    IN  config_get(key, config_get(old_key, None))

(***************************************************************************)
(* Sessions.  A session constructor is called with auth, verify, cert and  *)
(* timeout and returns a new object; the keystoneauth Session has the      *)
(* attributes additional_user_agent, app_name and app_version, an older    *)
(* session class has none of them.                                         *)
(***************************************************************************)
ks_session_Session == "keystoneauth1.session.Session"
LegacySession == "LegacySession"
Constructors == {ks_session_Session, LegacySession}

hasattr(session, attr) == attr \in session.attrs

\* self._session_constructor(auth=..., verify=..., cert=..., timeout=...):
\* object number id, built by the class constructor
session_constructor(constructor, id, auth, verify, cert, timeout) ==
    [session |-> id, constructor |-> constructor, auth |-> auth,
     verify |-> verify, cert |-> cert, timeout |-> timeout,
     attrs |-> IF constructor = ks_session_Session
               THEN {"additional_user_agent", "app_name", "app_version"}
               ELSE {},
     additional_user_agent |-> <<>>, app_name |-> None, app_version |-> None]

\* get_session, lines 213-223: the attributes set on the object just stored
augment(session) ==
    [session EXCEPT
        !.additional_user_agent =
            IF hasattr(session, "additional_user_agent")
            THEN Append(@, "openstacksdk") ELSE @,
        !.app_name = IF hasattr(session, "app_name") THEN _app_name ELSE @,
        !.app_version = IF hasattr(session, "app_version") THEN _app_version ELSE @]

\* The identity of a session object.
id(session) == session.session

(***************************************************************************)
(* CloudRegion.get_session, run from its first line to its return with no  *)
(* other call in between: the outcome, and the state it leaves.            *)
(***************************************************************************)
\* get_session without its auth check
get_session_unchecked ==
    IF get_requests_verify_args.exc # ""
    THEN [out |-> get_requests_verify_args, session |-> _keystone_session,
          built |-> 0, verified |-> 1]
    ELSE IF "api_timeout" \notin DOMAIN config
    THEN [out |-> Raise(KeyError), session |-> _keystone_session,
          built |-> 0, verified |-> 1]
    ELSE LET verify == get_requests_verify_args.val.tuple[1]
             cert == get_requests_verify_args.val.tuple[2]
             new == augment(session_constructor(
                        _session_constructor, factory_calls + 1, _auth,
                        verify, cert, config["api_timeout"]))
         IN  [out |-> Return(new), session |-> new, built |-> 1, verified |-> 1]

\* get_session, lines 195-223: the session is not built yet
get_session_uncached ==
    IF ~Truthy(_auth)
    THEN [out |-> Raise(OpenStackConfigException), session |-> _keystone_session,
          built |-> 0, verified |-> 0]
    ELSE IF get_requests_verify_args.exc # ""
    THEN [out |-> get_requests_verify_args, session |-> _keystone_session,
          built |-> 0, verified |-> 1]
    ELSE IF "api_timeout" \notin DOMAIN config
    THEN [out |-> Raise(KeyError), session |-> _keystone_session,
          built |-> 0, verified |-> 1]
    ELSE LET verify == get_requests_verify_args.val.tuple[1]
             cert == get_requests_verify_args.val.tuple[2]
             new == augment(session_constructor(
                        _session_constructor, factory_calls + 1, _auth,
                        verify, cert, config["api_timeout"]))
         IN  [out |-> Return(new), session |-> new, built |-> 1, verified |-> 1]

\* get_session without its test of the cached session
get_session_rebuilt == get_session_uncached

get_session_run ==
    IF ~IsNone(_keystone_session)
    THEN [out |-> Return(_keystone_session), session |-> _keystone_session,
          built |-> 0, verified |-> 0]
    ELSE get_session_uncached

\* What a call leaves in ret: its name, arguments and outcome, the service
\* types it asked the catalog for, in order, and whether it logged a warning.
call(op, args, out) ==
    [op |-> op, args |-> args, out |-> out, queried |-> <<>>, warned |-> FALSE]

\* A call that only reads the object.
reads(r) ==
    /\ ret' = r
    /\ UNCHANGED <<fields, env, threads, _keystone_session, factory_calls,
                   verify_calls, returned, called>>

\* A call that runs get_session (with the outcome and state s) on its way.
with_session(r, s) ==
    /\ verify_calls < MaxVerifyCalls
    /\ _keystone_session' = s.session
    /\ factory_calls' = factory_calls + s.built
    /\ verify_calls' = verify_calls + s.verified
    /\ returned' = IF IsNone(returned) /\ s.out.exc = "" THEN s.out.val
                   ELSE returned
    /\ called' = TRUE
    /\ ret' = r
    /\ UNCHANGED <<fields, env, threads>>

\* get_session with the assignments of lines 221 and 223 reversed
get_session_reversed ==
    /\ verify_calls < MaxVerifyCalls
    /\ _keystone_session' = get_session_run.session
    /\ factory_calls' = factory_calls + get_session_run.built
    /\ verify_calls' = verify_calls + get_session_run.verified
    /\ returned' = IF IsNone(returned) /\ get_session_run.out.exc = ""
                   THEN get_session_run.out.val ELSE returned
    /\ called' = TRUE
    /\ ret' = call("get_session", <<>>, get_session_run.out)
    /\ _app_name' = IF get_session_run.built = 1 THEN None ELSE _app_name
    /\ _app_version' = IF get_session_run.built = 1 THEN None ELSE _app_version
    /\ UNCHANGED <<name, region_name, config, _force_ipv4, _auth, _openstack_config,
                   _session_constructor, env, threads>>

\* CloudRegion.get_session
get_session ==
    with_session(call("get_session", <<>>, get_session_run.out), get_session_run)

\* CloudRegion.set_session_constructor
set_session_constructor(session_constructor_) ==
    /\ _session_constructor' = session_constructor_
    /\ ret' = call("set_session_constructor", <<session_constructor_>>, Return(None))
    /\ UNCHANGED <<name, region_name, config, _force_ipv4, _auth,
                   _openstack_config, _app_name, _app_version, env, threads,
                   _keystone_session, factory_calls, verify_calls, returned,
                   called>>

(***************************************************************************)
(* The catalog probe.  The session resolves a service type to the endpoint *)
(* the catalog holds for it (for the service name, region and interface of *)
(* the call) and raises EndpointNotFound when it holds none.               *)
(***************************************************************************)
\* session.get_endpoint(service_type=..., ...)
session_get_endpoint(service_type) ==
    IF IsStr(service_type) /\ service_type.str \in DOMAIN catalog
    THEN Return(catalog[service_type.str])
    ELSE Raise(EndpointNotFound)

\* _get_highest_endpoint letting the first EndpointNotFound end the loop
_get_highest_endpoint_no_retry(service_types) ==
    IF service_types = <<>> THEN [val |-> None, queried |-> <<>>]
    ELSE [val |-> IF session_get_endpoint(Head(service_types)).exc = ""
                  THEN session_get_endpoint(Head(service_types)).val ELSE None,
          queried |-> <<Head(service_types)>>]

\* CloudRegion._get_highest_endpoint, after its get_session() call: the loop
RECURSIVE _get_highest_endpoint(_)
_get_highest_endpoint(service_types) ==
    IF service_types = <<>> THEN [val |-> None, queried |-> <<>>]
    ELSE IF session_get_endpoint(Head(service_types)).exc = ""
    THEN [val |-> session_get_endpoint(Head(service_types)).val,
          queried |-> <<Head(service_types)>>]
    ELSE [val |-> _get_highest_endpoint(Tail(service_types)).val,
          queried |-> <<Head(service_types)>>
                      \o _get_highest_endpoint(Tail(service_types)).queried]

\* A float is held in tenths: PyFloat(25) is 2.5.
float(v) == IF DOMAIN v = {"int"} THEN 10 * v.int ELSE v.float

\* math.trunc of a float that is not negative
trunc(tenths) == tenths \div 10

\* range(start, stop, -1)
range_down(start, stop) ==
    [i \in 1..(IF start > stop THEN start - stop ELSE 0) |-> start - i + 1]

\* get_session_endpoint, lines 313-323: the volume service types to probe
volume_service_types(min_version, max_version) ==
    LET min_major == trunc(float(IF Truthy(min_version) THEN min_version ELSE PyInt(1)))
        max_major == trunc(float(IF Truthy(max_version) THEN max_version ELSE PyInt(3)))
        versions == range_down(max_major + 1, min_major)
    IN  [i \in 1..Len(versions) |->
            IF versions[i] = 1 THEN Str("volume")
            ELSE Str("volumev" \o ToString(versions[i]))]

\* get_session_endpoint, lines 310-325: the candidate service types
candidate_service_types(service_key, min_version, max_version) ==
    IF service_key = "volume" /\ ~Truthy(get_api_version("volume"))
    THEN volume_service_types(min_version, max_version)
    ELSE <<get_service_type(service_key)>>

\* CloudRegion.get_session_endpoint
get_session_endpoint(service_key, min_version, max_version) ==
    LET args == <<service_key, min_version, max_version>>
        override_endpoint == get_endpoint(service_key)
        service_types == candidate_service_types(service_key, min_version, max_version)
        s == get_session_run
        found == _get_highest_endpoint(service_types)
    IN  IF Truthy(override_endpoint)
        THEN reads(call("get_session_endpoint", args, Return(override_endpoint)))
        ELSE IF s.out.exc # ""
        THEN with_session(call("get_session_endpoint", args, s.out), s)
        ELSE with_session(
                [op |-> "get_session_endpoint", args |-> args,
                 out |-> Return(found.val), queried |-> found.queried,
                 warned |-> ~Truthy(found.val)], s)

\* CloudRegion.get_service_catalog
get_service_catalog ==
    IF IsNone(_auth)
    THEN reads(call("get_service_catalog", <<>>, Raise("AttributeError")))
    ELSE IF get_session_run.out.exc # ""
    THEN with_session(call("get_service_catalog", <<>>, get_session_run.out),
                      get_session_run)
    ELSE with_session(call("get_service_catalog", <<>>,
                           Return([service_catalog |-> catalog])),
                      get_session_run)

\* CloudRegion._get_version_args
_get_version_args(service_key, version) ==
    IF version = Str("latest") THEN <<None, None, Str("latest")>>
    ELSE LET version_ == IF ~Truthy(version) THEN get_api_version(service_key)
                         ELSE version
         IN  IF ~Truthy(version_) THEN <<None, None, Str("latest")>>
             ELSE <<version_, None, None>>

\* CloudRegion.get_session_client
get_session_client(service_key, version) ==
    LET s == get_session_run
        va == _get_version_args(service_key, version)
    IN  IF s.out.exc # ""
        THEN with_session(call("get_session_client", <<service_key, version>>, s.out), s)
        ELSE with_session(
                call("get_session_client", <<service_key, version>>,
                     Return([adapter |-> id(s.out.val),
                             service_type |-> get_service_type(service_key),
                             service_name |-> get_service_name(service_key),
                             interface |-> get_interface(service_key),
                             region_name |-> region_name,
                             version |-> va[1], min_version |-> va[2],
                             max_version |-> va[3]])), s)

(***************************************************************************)
(* The cache settings, passed through from the parent OpenStackConfig.     *)
(***************************************************************************)
\* CloudRegion.get_cache_expiration_time, get_cache_path, get_cache_class,
\* get_cache_arguments, get_cache_expiration
get_cache(setting) ==
    reads(call("get_cache_" \o setting, <<>>,
               IF Truthy(_openstack_config)
               THEN Return(_openstack_config[setting])
               ELSE Return(None)))

\* CloudRegion.get_cache_resource_expiration: what it returns
cache_resource_expiration(resource, default) ==
    IF Truthy(_openstack_config)
    THEN LET expiration == _openstack_config["expiration"]
         IN  IF resource \notin DOMAIN expiration THEN default
             ELSE PyFloat(float(expiration[resource]))
    ELSE None

\* CloudRegion.get_cache_resource_expiration
get_cache_resource_expiration(resource, default) ==
    reads(call("get_cache_resource_expiration", <<resource, default>>,
               Return(cache_resource_expiration(resource, default))))

(***************************************************************************)
(* Floating ips and the network classification helpers.                    *)
(***************************************************************************)
\* CloudRegion.requires_floating_ip: what it returns or raises
requires_floating_ip_run ==
    IF "floating_ip_source" \notin DOMAIN config THEN Raise(KeyError)
    ELSE IF config["floating_ip_source"] = Str("None") THEN Return(Bool(FALSE))
    ELSE Return(config_get("requires_floating_ip", None))

\* CloudRegion.requires_floating_ip
requires_floating_ip == reads(call("requires_floating_ip", <<>>, requires_floating_ip_run))

\* [net['name'] for net in networks if net[key]], or `if not net[key]`
RECURSIVE names_where(_, _, _)
names_where(networks, key, truth) ==
    IF networks = <<>> THEN Return(List(<<>>))
    ELSE LET net == Head(networks)
             rest == names_where(Tail(networks), key, truth)
         IN  IF key \notin DOMAIN net THEN Raise(KeyError)
             ELSE IF Truthy(net[key]) = truth /\ "name" \notin DOMAIN net
             THEN Raise(KeyError)
             ELSE IF rest.exc # "" THEN rest
             ELSE IF Truthy(net[key]) = truth
             THEN Return(List(<<net["name"]>> \o rest.val.list))
             ELSE rest

\* for net in networks: if net[key]: return net['name'] (net.get(key) if soft)
RECURSIVE first_where(_, _, _)
first_where(networks, key, soft) ==
    IF networks = <<>> THEN Return(None)
    ELSE LET net == Head(networks)
         IN  IF key \notin DOMAIN net
             THEN IF soft THEN first_where(Tail(networks), key, soft)
                  ELSE Raise(KeyError)
             ELSE IF Truthy(net[key])
             THEN IF "name" \in DOMAIN net THEN Return(net["name"]) ELSE Raise(KeyError)
             ELSE first_where(Tail(networks), key, soft)

\* CloudRegion.get_external_networks, get_external_ipv4_networks,
\* get_external_ipv6_networks (truth) and get_internal_networks,
\* get_internal_ipv4_networks, get_internal_ipv6_networks (not truth)
networks_where(key, truth) ==
    IF "networks" \notin DOMAIN config THEN Raise(KeyError)
    ELSE names_where(config["networks"].list, key, truth)

\* CloudRegion.get_default_network, get_nat_destination, get_nat_source (soft)
network_where(key, soft) ==
    IF "networks" \notin DOMAIN config THEN Raise(KeyError)
    ELSE first_where(config["networks"].list, key, soft)

get_external_networks ==
    reads(call("get_external_networks", <<>>, networks_where("routes_externally", TRUE)))
get_external_ipv4_networks ==
    reads(call("get_external_ipv4_networks", <<>>,
               networks_where("routes_ipv4_externally", TRUE)))
get_external_ipv6_networks ==
    reads(call("get_external_ipv6_networks", <<>>,
               networks_where("routes_ipv6_externally", TRUE)))
get_internal_networks ==
    reads(call("get_internal_networks", <<>>, networks_where("routes_externally", FALSE)))
get_internal_ipv4_networks ==
    reads(call("get_internal_ipv4_networks", <<>>,
               networks_where("routes_ipv4_externally", FALSE)))
get_internal_ipv6_networks ==
    reads(call("get_internal_ipv6_networks", <<>>,
               networks_where("routes_ipv6_externally", FALSE)))
get_default_network ==
    reads(call("get_default_network", <<>>, network_where("default_interface", FALSE)))
get_nat_destination ==
    reads(call("get_nat_destination", <<>>, network_where("nat_destination", FALSE)))
get_nat_source ==
    reads(call("get_nat_source", <<>>, network_where("nat_source", TRUE)))

(***************************************************************************)
(* The getters as calls.                                                   *)
(***************************************************************************)
call_get_requests_verify_args ==
    reads([call("get_requests_verify_args", <<>>, get_requests_verify_args)
             EXCEPT !.warned = get_requests_verify_args_warns])
call_get_auth_args == reads(call("get_auth_args", <<>>, Return(get_auth_args)))
call_get_auth == reads(call("get_auth", <<>>, Return(_auth)))
call_force_ipv4 == reads(call("force_ipv4", <<>>, Return(Bool(_force_ipv4))))
call_prefer_ipv6 == reads(call("prefer_ipv6", <<>>, Return(Bool(~_force_ipv4))))
call_get_interface(service_type) ==
    reads(call("get_interface", <<service_type>>, Return(get_interface(service_type))))
call_get_api_version(service_type) ==
    reads(call("get_api_version", <<service_type>>, Return(get_api_version(service_type))))
call_get_service_type(service_type) ==
    reads(call("get_service_type", <<service_type>>, Return(get_service_type(service_type))))
call_get_service_name(service_type) ==
    reads(call("get_service_name", <<service_type>>, Return(get_service_name(service_type))))
call_get_endpoint(service_type) ==
    reads(call("get_endpoint", <<service_type>>, Return(get_endpoint(service_type))))

(***************************************************************************)
(* Construction.                                                           *)
(***************************************************************************)
NumThreads == 2
Threads == 1..NumThreads

\* A key that a dict does not hold.
Absent == [absent |-> TRUE]

\* {key: value}, or {} for an absent value
entry(key, value) == IF value = Absent THEN <<>> ELSE key :> value

\* The auth plugin of the cloud, and a session somebody built from it.
auth_plugin_ == [plugin |-> "password", auth_url |-> "https://keystone.example.com/v3"]
existing_session ==
    session_constructor(ks_session_Session, 0, auth_plugin_, Bool(TRUE), None, None)

\* urllib.parse.urlparse(session.auth.auth_url).hostname
hostname(session) == Str("keystone.example.com")

\* CloudRegion.__init__
CloudRegion(name_, region_name_, config_, force_ipv4, auth_plugin, openstack_config, session_constructor_, app_name, app_version, session) ==
    /\ name = name_
    /\ region_name = region_name_
    /\ config = config_
    /\ _force_ipv4 = force_ipv4
    /\ _auth = auth_plugin
    /\ _openstack_config = openstack_config
    /\ _keystone_session = session
    /\ _session_constructor = IF IsNone(session_constructor_) THEN ks_session_Session
                              ELSE session_constructor_
    /\ _app_name = app_name
    /\ _app_version = app_version
    /\ factory_calls = 0
    /\ verify_calls = 0
    /\ returned = None
    /\ called = FALSE
    /\ pc = [t \in Threads |-> "idle"]
    /\ frame = [t \in Threads |-> None]
    /\ ret = call("__init__", <<>>, Return(None))

\* from_session
from_session(session, name_, config_) ==
    CloudRegion(IF Truthy(name_) THEN name_ ELSE hostname(session), None,
                IF config_ = None \/ config_ = <<>> THEN <<>> ELSE config_,
                FALSE, None, None, None, None, None, session)

(***************************************************************************)
(* CloudRegion.get_session run by several threads: the steps between which *)
(* the interpreter may switch threads.                                     *)
(***************************************************************************)
goto(t, label) == pc' = [pc EXCEPT ![t] = label]

\* line 194: if self._keystone_session is None
enter(t) ==
    /\ pc[t] = "idle"
    /\ verify_calls < MaxVerifyCalls
    /\ called' = TRUE
    /\ goto(t, IF IsNone(_keystone_session) THEN "args" ELSE "return")
    /\ UNCHANGED <<fields, env, frame, _keystone_session, factory_calls,
                   verify_calls, returned, ret>>

\* lines 195-207 and 212: the auth check and the arguments of the constructor
arguments(t) ==
    /\ pc[t] = "args"
    /\ IF get_session_uncached.out.exc # ""
       THEN /\ ret' = call("get_session", <<>>, get_session_uncached.out)
            /\ goto(t, "idle")
            /\ UNCHANGED frame
       ELSE /\ frame' = [frame EXCEPT ![t] =
                            [verify |-> get_requests_verify_args.val.tuple[1],
                             cert |-> get_requests_verify_args.val.tuple[2],
                             timeout |-> config["api_timeout"]]]
            /\ goto(t, "construct")
            /\ UNCHANGED ret
    /\ verify_calls' = verify_calls + get_session_uncached.verified
    /\ UNCHANGED <<fields, env, _keystone_session, factory_calls, returned, called>>

\* lines 208-212: the call of self._session_constructor
construct(t) ==
    /\ pc[t] = "construct"
    /\ factory_calls' = factory_calls + 1
    /\ frame' = [frame EXCEPT ![t] =
                    session_constructor(_session_constructor, factory_calls + 1, _auth,
                                        frame[t].verify, frame[t].cert,
                                        frame[t].timeout)]
    /\ goto(t, "store")
    /\ UNCHANGED <<fields, env, _keystone_session, verify_calls, returned, called, ret>>

\* line 208: self._keystone_session = ...
store(t) ==
    /\ pc[t] = "store"
    /\ _keystone_session' = frame[t]
    /\ frame' = [frame EXCEPT ![t] = None]
    /\ goto(t, "augment")
    /\ UNCHANGED <<fields, env, factory_calls, verify_calls, returned, called, ret>>

\* lines 213-223: the attributes set on self._keystone_session
set_attributes(t) ==
    /\ pc[t] = "augment"
    /\ _keystone_session' = augment(_keystone_session)
    /\ goto(t, "return")
    /\ UNCHANGED <<fields, env, frame, factory_calls, verify_calls, returned,
                   called, ret>>

\* line 224: return self._keystone_session
return(t) ==
    /\ pc[t] = "return"
    /\ ret' = call("get_session", <<>>, Return(_keystone_session))
    /\ returned' = IF IsNone(returned) THEN _keystone_session ELSE returned
    /\ goto(t, "idle")
    /\ UNCHANGED <<fields, env, frame, _keystone_session, factory_calls,
                   verify_calls, called>>

(***************************************************************************)
(* The configurations and the calls of each specification.                 *)
(***************************************************************************)
\* The settings get_session reads.
SessionConfigs ==
    { entry("verify", verify) @@ entry("cacert", cacert) @@ entry("cert", cert)
      @@ entry("key", key) @@ entry("api_timeout", api_timeout) :
        verify \in {Absent, Bool(TRUE), Bool(FALSE)},
        cacert \in {Absent, Str("/ca.pem")},
        cert \in {Absent, Str("/cert.pem")},
        key \in {Absent, Str("/key.pem")},
        api_timeout \in {Absent, PyInt(30)} }

\* The settings a loader fills in for every cloud.
network(name_, external, default_interface, nat_destination) ==
    "name" :> Str(name_) @@ "routes_externally" :> Bool(external)
    @@ "routes_ipv4_externally" :> Bool(external)
    @@ "routes_ipv6_externally" :> Bool(FALSE)
    @@ "default_interface" :> Bool(default_interface)
    @@ "nat_destination" :> Bool(nat_destination)

defaults ==
    "interface" :> Str("public") @@ "floating_ip_source" :> Str("neutron")
    @@ "networks" :> List(<<network("public", TRUE, TRUE, FALSE),
                            network("private", FALSE, FALSE, TRUE)>>)

Catalog ==
    "compute" :> Str("https://compute.example.com")
    @@ "volumev2" :> Str("https://volume.example.com/v2")

Init ==
    /\ catalog = Catalog
    /\ \/ \E config_ \in SessionConfigs, auth_plugin \in {None, auth_plugin_},
             session \in {None, existing_session} :
             CloudRegion(Str("cloud"), Str("RegionOne"), config_ @@ defaults, FALSE,
                         auth_plugin, None, None, Str("app"), Str("1.0"), session)
       \/ \E config_ \in {None, defaults} :
             from_session(existing_session, None, config_)

Next ==
    \/ get_session
    \/ \E c \in Constructors : set_session_constructor(c)
    \/ call_get_requests_verify_args
    \/ call_get_auth_args
    \/ call_get_auth
    \/ call_force_ipv4
    \/ call_prefer_ipv6
    \/ \E service_type \in {"", "compute"} : call_get_interface(service_type)
    \/ \E service_type \in {"volume"} : call_get_api_version(service_type)
    \/ \E service_type \in {"volume"} : call_get_service_type(service_type)
    \/ \E service_type \in {"compute"} : call_get_service_name(service_type)
    \/ \E service_type \in {"compute"} : call_get_endpoint(service_type)
    \/ \E service_key \in {"compute", "volume"} :
          get_session_endpoint(service_key, None, None)
    \/ get_service_catalog
    \/ \E service_key \in {"compute"}, version \in {None} :
          get_session_client(service_key, version)
    \/ \E setting \in {"expiration_time", "path", "class", "arguments", "expiration"} :
          get_cache(setting)
    \/ \E resource \in {"server"} : get_cache_resource_expiration(resource, None)
    \/ requires_floating_ip
    \/ get_external_networks
    \/ get_external_ipv4_networks
    \/ get_external_ipv6_networks
    \/ get_internal_networks
    \/ get_internal_ipv4_networks
    \/ get_internal_ipv6_networks
    \/ get_default_network
    \/ get_nat_destination
    \/ get_nat_source

Spec == Init /\ [][Next]_vars

(***************************************************************************)
(* Concurrent callers of get_session on an object built without a session. *)
(***************************************************************************)
InitThreads ==
    /\ catalog = Catalog
    /\ \E config_ \in SessionConfigs, auth_plugin \in {None, auth_plugin_} :
          CloudRegion(Str("cloud"), Str("RegionOne"), config_ @@ defaults, FALSE,
                      auth_plugin, None, None, Str("app"), Str("1.0"), None)

NextThreads ==
    \E t \in Threads :
        \/ enter(t)
        \/ arguments(t)
        \/ construct(t)
        \/ store(t)
        \/ set_attributes(t)
        \/ return(t)

SpecThreads == InitThreads /\ [][NextThreads]_vars

(***************************************************************************)
(* Endpoint resolution: the endpoint settings of a service, the configured *)
(* volume version, and the catalog.                                        *)
(***************************************************************************)
session_settings ==
    "verify" :> Bool(TRUE) @@ "cacert" :> None @@ "api_timeout" :> PyInt(30)

EndpointConfigs ==
    { entry("volume_endpoint_override", override) @@ entry("volume_endpoint", legacy)
      @@ entry("volume_api_version", api_version)
      @@ entry("compute_endpoint", compute) @@ session_settings @@ defaults :
        override \in {Absent, Str(""), Str("https://override.example.com")},
        legacy \in {Absent, Str("https://legacy.example.com")},
        api_version \in {Absent, Str("2"), Str("3.0")},
        compute \in {Absent, Str("https://nova.example.com")} }

CatalogTypes == {"volume", "volumev2", "volumev3", "volumev4"}

Catalogs ==
    { [t \in types \cup {"compute"} |-> Str("https://catalog.example.com/" \o t)] :
        types \in SUBSET CatalogTypes }

MinVersions == {None, PyFloat(5)} \cup {PyInt(n) : n \in 1..MaxMajor - 1}
MaxVersions == {None, PyFloat(25)} \cup {PyInt(n) : n \in 2..MaxMajor}

InitEndpoint ==
    /\ catalog \in Catalogs
    /\ \E config_ \in EndpointConfigs :
          CloudRegion(Str("cloud"), Str("RegionOne"), config_, FALSE, auth_plugin_,
                      None, None, Str("app"), Str("1.0"), None)

NextEndpoint ==
    \/ \E min_version \in MinVersions, max_version \in MaxVersions :
          get_session_endpoint("volume", min_version, max_version)
    \/ get_session_endpoint("compute", None, None)
    \/ \E service_type \in {"volume", "compute"} : call_get_endpoint(service_type)
    \/ get_session

SpecEndpoint == InitEndpoint /\ [][NextEndpoint]_vars

(***************************************************************************)
(* Service types: the configured API versions and service type settings.   *)
(***************************************************************************)
ServiceTypes == {"compute", "volume", "block-storage", "Block-Storage", "workflow"}

ServiceTypeConfigs ==
    { entry("volume_api_version", volume_version)
      @@ entry("workflow_api_version", workflow_version)
      @@ entry("volume_service_type", volume_type_)
      @@ entry("block_storage_service_type", block_storage_type)
      @@ entry("workflow_service_type", workflow_type)
      @@ entry("compute_service_type", compute_type) @@ defaults :
        volume_version \in {Absent, None, Str(""), Str("1"), Str("2"), Str("2.1"),
                            Str("3.0"), Str("12")},
        workflow_version \in {Absent, Str("2"), Str("3.0")},
        volume_type_ \in {Absent, Str("my-volume")},
        block_storage_type \in {Absent, Str("my-block-storage")},
        workflow_type \in {Absent, Str("my-workflow")},
        compute_type \in {Absent, Str("my-compute")} }

InitServiceType ==
    /\ catalog = Catalog
    /\ \E config_ \in ServiceTypeConfigs :
          CloudRegion(Str("cloud"), Str("RegionOne"), config_, FALSE, auth_plugin_,
                      None, None, Str("app"), Str("1.0"), None)

NextServiceType ==
    \/ \E service_type \in ServiceTypes : call_get_service_type(service_type)
    \/ \E service_type \in ServiceTypes : call_get_api_version(service_type)
    \/ \E service_type \in ServiceTypes \cup {""} : call_get_interface(service_type)

SpecServiceType == InitServiceType /\ [][NextServiceType]_vars

(***************************************************************************)
(* Cache settings: the parent OpenStackConfig, if there is one.            *)
(***************************************************************************)
Resources == {"server", "port"}

Expirations ==
    { entry("server", server) @@ entry("port", port) :
        server \in {Absent, PyInt(5), PyFloat(25)},
        port \in {Absent, PyInt(0), PyInt(60)} }

Providers ==
    { [expiration_time |-> PyInt(0), path |-> Str("~/.cache/openstack"),
       class |-> Str("dogpile.cache.null"), arguments |-> None,
       expiration |-> expiration] : expiration \in Expirations }

InitCache ==
    /\ catalog = Catalog
    /\ \E openstack_config \in {None} \cup Providers :
          CloudRegion(Str("cloud"), Str("RegionOne"), defaults, FALSE, auth_plugin_,
                      openstack_config, None, Str("app"), Str("1.0"), None)

NextCache ==
    \/ \E setting \in {"expiration_time", "path", "class", "arguments", "expiration"} :
          get_cache(setting)
    \/ \E resource \in Resources \cup {"flavor"},
          default \in {None, PyInt(7), PyFloat(15)} :
          get_cache_resource_expiration(resource, default)

SpecCache == InitCache /\ [][NextCache]_vars

(***************************************************************************)
(* Properties of the sequential calls (Spec).                              *)
(***************************************************************************)
\* C2: once a get_session() call has returned a session, no later call
\* invokes a session constructor or recomputes the verify arguments, and
\* every later get_session() returns that same session, whatever is called
\* in between.
C2_CachedSessionIsReturned ==
    [][~IsNone(returned) =>
        /\ factory_calls' = factory_calls
        /\ verify_calls' = verify_calls
        /\ (ret'.op = "get_session" => ret'.out = Return(returned))]_vars

\* C2: a session was built, the constructor was replaced afterwards, and a
\* later get_session() returned the session built first.
C2_Witness ==
    /\ ret.op = "get_session"
    /\ ~IsNone(returned)
    /\ ret.out = Return(returned)
    /\ factory_calls = 1
    /\ returned.constructor # _session_constructor

\* C3, as claimed: with no auth plugin set, the first get_session() call
\* fails with the configuration error, however the object was constructed.
C3_FirstCallFailsWithoutAuth ==
    [][(IsNone(_auth) /\ ~called /\ ret'.op = "get_session") =>
        ret'.out = Raise(OpenStackConfigException)]_vars

\* C3, amended: with no auth plugin set, the first get_session() call fails
\* with the configuration error and leaves the session unset when the object
\* was constructed without a session, and returns the session the object was
\* constructed with otherwise.
C3_FirstCallWithoutAuth ==
    [][(IsNone(_auth) /\ ~called /\ ret'.op = "get_session") =>
        IF IsNone(_keystone_session)
        THEN /\ ret'.out = Raise(OpenStackConfigException)
             /\ IsNone(_keystone_session')
             /\ factory_calls' = factory_calls
        ELSE /\ ret'.out = Return(_keystone_session)
             /\ _keystone_session' = _keystone_session
             /\ factory_calls' = factory_calls]_vars

\* C3: get_session() has failed with the configuration error on an object
\* with neither auth plugin nor session.
C3_Witness ==
    /\ ret.op = "get_session"
    /\ ret.out = Raise(OpenStackConfigException)
    /\ IsNone(_auth)
    /\ IsNone(_keystone_session)
    /\ factory_calls = 0

\* C4: no call of an accessor fails with a missing-key error, whatever keys
\* the config mapping lacks.
C4_NoMissingKeyError ==
    ret.op \in {"get_requests_verify_args", "get_session", "requires_floating_ip",
                "get_external_networks", "get_external_ipv4_networks",
                "get_external_ipv6_networks", "get_internal_networks",
                "get_internal_ipv4_networks", "get_internal_ipv6_networks",
                "get_default_network", "get_nat_destination", "get_nat_source",
                "get_interface", "get_api_version", "get_service_type",
                "get_service_name", "get_endpoint"}
        => ret.out.exc # KeyError

\* C10, as claimed: no call changes a field other than the session.
C10_OnlySessionChanges ==
    [][UNCHANGED <<name, region_name, config, _force_ipv4, _auth,
                   _session_constructor, _app_name, _app_version>>]_vars

\* C10, amended: no call changes name, region_name, config, auth, force_ipv4,
\* app_name, app_version or the parent config; the session constructor is
\* changed by set_session_constructor and by nothing else.
C10_OnlySessionAndConstructorChange ==
    [][/\ UNCHANGED <<name, region_name, config, _force_ipv4, _auth,
                      _openstack_config, _app_name, _app_version>>
       /\ (_session_constructor' # _session_constructor =>
              ret'.op = "set_session_constructor")]_vars

\* C10: the session was built and the constructor replaced.
C10_Witness ==
    /\ ~IsNone(_keystone_session)
    /\ factory_calls = 1
    /\ _session_constructor = LegacySession
    /\ ret.op # "set_session_constructor"

(***************************************************************************)
(* Properties of concurrent callers (SpecThreads).                         *)
(***************************************************************************)
\* C1: under any interleaving of get_session() calls, a session constructor
\* is invoked at most once and the session field, once set, is never given
\* another session.
C1_SessionBuiltOnce ==
    [][/\ factory_calls' <= 1
       /\ (~IsNone(_keystone_session) =>
              id(_keystone_session') = id(_keystone_session))]_vars

(***************************************************************************)
(* Properties of endpoint resolution (SpecEndpoint).                       *)
(***************************************************************************)
\* The endpoint settings of the service of the call in ret.
override_key(r) == r.args[1] \o "_endpoint_override"
legacy_key(r) == r.args[1] \o "_endpoint"
explicit_endpoint(r) ==
    IF override_key(r) \in DOMAIN config THEN config[override_key(r)]
    ELSE IF legacy_key(r) \in DOMAIN config THEN config[legacy_key(r)]
    ELSE None

\* C5, as claimed: when the override key or the legacy key of the service is
\* present, get_session_endpoint returns the override value if present and
\* the legacy value otherwise, builds no session and queries no catalog; the
\* catalog is queried only when neither key is present.
C5_PresentKeyShortCircuits ==
    [][ret'.op = "get_session_endpoint" =>
        /\ (override_key(ret') \in DOMAIN config \/ legacy_key(ret') \in DOMAIN config) =>
              /\ ret'.out = Return(explicit_endpoint(ret'))
              /\ ret'.queried = <<>>
              /\ UNCHANGED <<_keystone_session, factory_calls>>
        /\ ret'.queried # <<>> =>
              /\ override_key(ret') \notin DOMAIN config
              /\ legacy_key(ret') \notin DOMAIN config]_vars

\* C5, amended: when the value the settings resolve to (the override value if
\* that key is present, the legacy value otherwise) is truthy,
\* get_session_endpoint returns it, builds no session and queries no catalog;
\* the catalog is queried only when that value is absent, None or empty.
C5_TruthyEndpointShortCircuits ==
    [][ret'.op = "get_session_endpoint" =>
        /\ Truthy(explicit_endpoint(ret')) =>
              /\ ret'.out = Return(explicit_endpoint(ret'))
              /\ ret'.queried = <<>>
              /\ UNCHANGED <<_keystone_session, factory_calls, verify_calls>>
        /\ ret'.queried # <<>> => ~Truthy(explicit_endpoint(ret'))]_vars

\* C5: both keys are set and get_session_endpoint has returned the override
\* value without building a session.
C5_Witness ==
    /\ ret.op = "get_session_endpoint"
    /\ "volume_endpoint_override" \in DOMAIN config
    /\ "volume_endpoint" \in DOMAIN config
    /\ ret.args[1] = "volume"
    /\ ret.out = Return(Str("https://override.example.com"))
    /\ IsNone(_keystone_session)
    /\ factory_calls = 0

\* The major version of a bound, or of its default.
major(version, default) ==
    IF Truthy(version) THEN float(version) \div 10 ELSE default

\* The service type of a volume major version.
volume_type(version) ==
    IF version = 1 THEN Str("volume") ELSE Str("volumev" \o ToString(version))

\* max_version, max_version - 1, ..., min_version + 1 as service types
C6_expected(min_version, max_version) ==
    [i \in 1..(IF major(max_version, 3) > major(min_version, 1)
               THEN major(max_version, 3) - major(min_version, 1) ELSE 0) |->
        volume_type(major(max_version, 3) - i + 1)]

\* C6: get_session_endpoint("volume", min_version, max_version), with no
\* explicit endpoint and no configured volume version, queries the service
\* types of max_version down to min_version + 1, in that order, up to the
\* first one the catalog resolves, and none of a version above max_version.
C6_ProbesFromMaxVersion ==
    (/\ ret.op = "get_session_endpoint"
     /\ ret.out.exc = ""
     /\ ret.args[1] = "volume"
     /\ ~Truthy(explicit_endpoint(ret))
     /\ "volume_api_version" \notin DOMAIN config) =>
        /\ Len(ret.queried) <= Len(C6_expected(ret.args[2], ret.args[3]))
        /\ ret.queried = SubSeq(C6_expected(ret.args[2], ret.args[3]), 1, Len(ret.queried))
        /\ IsNone(ret.out.val) => ret.queried = C6_expected(ret.args[2], ret.args[3])

\* Whether the catalog resolves a candidate.
resolves(service_type) == IsStr(service_type) /\ service_type.str \in DOMAIN catalog

\* The candidates of the call in ret.
candidates(r) == candidate_service_types(r.args[1], r.args[2], r.args[3])

\* The position of the first candidate the catalog resolves, 0 if none.
first_resolved(cs) ==
    IF \E i \in 1..Len(cs) : resolves(cs[i])
    THEN CHOOSE i \in 1..Len(cs) :
            resolves(cs[i]) /\ \A j \in 1..(i - 1) : ~resolves(cs[j])
    ELSE 0

\* C7: the catalog probe queries the candidates in order, goes on to the next
\* one when the catalog does not hold a candidate, returns the endpoint of the
\* first candidate the catalog resolves and queries none after it, and
\* returns None, not an error, when it resolves none; with no configured
\* volume version and a catalog holding only volumev2 for the volume service,
\* get_session_endpoint("volume") returns the volumev2 endpoint.
C7_FirstResolvedCandidateWins ==
    (/\ ret.op = "get_session_endpoint"
     /\ ~Truthy(explicit_endpoint(ret))
     /\ ~IsNone(_keystone_session)) =>
        /\ ret.out.exc = ""
        /\ IF first_resolved(candidates(ret)) = 0
           THEN /\ ret.out.val = None
                /\ ret.queried = candidates(ret)
           ELSE /\ ret.out.val = catalog[candidates(ret)[first_resolved(candidates(ret))].str]
                /\ ret.queried = SubSeq(candidates(ret), 1, first_resolved(candidates(ret)))
        /\ (/\ ret.args = <<"volume", None, None>>
            /\ "volume_api_version" \notin DOMAIN config
            /\ DOMAIN catalog \cap CatalogTypes = {"volumev2"}) =>
              ret.out.val = catalog["volumev2"]

\* C7: with only volumev2 in the catalog, get_session_endpoint("volume") has
\* gone past candidates the catalog does not hold and returned the volumev2
\* endpoint.
C7_Witness ==
    /\ ret.op = "get_session_endpoint"
    /\ ret.args = <<"volume", None, None>>
    /\ DOMAIN catalog \cap CatalogTypes = {"volumev2"}
    /\ Len(ret.queried) >= 2
    /\ ret.out = Return(catalog["volumev2"])

(***************************************************************************)
(* Properties of service type resolution (SpecServiceType).                *)
(***************************************************************************)
\* The key of the explicit service type setting of a service.
C8_key(s) ==
    IF s \in {"block-storage", "Block-Storage"} THEN "block_storage_service_type"
    ELSE s \o "_service_type"

\* Whether the configured API version of a service starts with a digit.
C8_version_starts(service, digit) ==
    /\ (service \o "_api_version") \in DOMAIN config
    /\ IsStr(config[service \o "_api_version"])
    /\ startswith(config[service \o "_api_version"].str, digit)

\* C8: get_service_type(s) returns the explicit <s>_service_type setting when
\* there is one; otherwise volumev2 or volumev3 for volume and block-storage
\* when the configured volume version starts with 2 or 3, workflowv2 for
\* workflow when the configured workflow version starts with 2, and s
\* unchanged in every other case.
C8_ServiceTypeResolution ==
    ret.op = "get_service_type" =>
        ret.out =
            Return(IF C8_key(ret.args[1]) \in DOMAIN config
                   THEN config[C8_key(ret.args[1])]
                   ELSE IF ret.args[1] \in {"volume", "block-storage"}
                   THEN IF C8_version_starts("volume", "2") THEN Str("volumev2")
                        ELSE IF C8_version_starts("volume", "3") THEN Str("volumev3")
                        ELSE Str(ret.args[1])
                   ELSE IF ret.args[1] = "workflow"
                   THEN IF C8_version_starts("workflow", "2") THEN Str("workflowv2")
                        ELSE Str(ret.args[1])
                   ELSE Str(ret.args[1]))

\* C8: with volume version 2.1 configured and an explicit service type set
\* for block-storage, get_service_type("block-storage") has returned the
\* explicit one.
C8_Witness ==
    /\ ret.op = "get_service_type"
    /\ ret.args = <<"block-storage">>
    /\ "volume_api_version" \in DOMAIN config
    /\ config["volume_api_version"] = Str("2.1")
    /\ ret.out = Return(Str("my-block-storage"))

(***************************************************************************)
(* Properties of the cache settings (SpecCache).                           *)
(***************************************************************************)
\* C9: get_cache_resource_expiration(resource, default) returns the
\* configured value, as a float, when the expiration mapping of the parent
\* config holds the resource, and default otherwise, also when there is no
\* parent config.
C9_DefaultWhenNoEntry ==
    ret.op = "get_cache_resource_expiration" =>
        IF /\ ~IsNone(_openstack_config)
           /\ ret.args[1] \in DOMAIN _openstack_config["expiration"]
        THEN ret.out = Return(PyFloat(float(_openstack_config["expiration"][ret.args[1]])))
        ELSE ret.out = Return(ret.args[2])

====
